---- MODULE Spec2Model ----
(***************************************************************************)
(* A model of mast.logging (src/mast/logging/__init__.py): the logger      *)
(* factory make_logger, the call-tracing decorator logged, and the pure    *)
(* helpers _format_args, _format_kwargs, _format_arguments and _escape.    *)
(*                                                                         *)
(* Python strings are modelled as sequences of one-character strings, so   *)
(* that str.replace, os.path.basename and os.path.join are computed the    *)
(* way the interpreter computes them.                                      *)
(***************************************************************************)
EXTENDS Integers, Sequences, FiniteSets, TLC

VARIABLES
    escPc,      \* _escape: "off", "start", "once" (escaped), "twice"
    escIn,      \* _escape: the argument `string`
    escOut,     \* _escape(string), once escPc is "once"
    escTwice,   \* _escape(_escape(string)), once escPc is "twice"
    fmtPc,      \* _format_arguments: "off", "start", "done"
    fmtArgs,    \* _format_arguments: the tuple `args`
    fmtKwargs,  \* _format_arguments: the dict `kwargs`, in iteration order
    fmtOut,     \* _format_arguments(args, kwargs), once fmtPc is "done"

    environ,    \* os.environ: MAST_HOME (Unset, or its value) and whether mastd is set
    imported,   \* the module body: "no" (not run), "ok", or the error it raised
    mast_home,  \* the module global mast_home, once the module body has set it
    loggers,    \* the logging module's registry: logger name -> logger
    lastCall,   \* the frame of the latest make_logger call made by the application
    frames,     \* per thread, the frame of its make_logger call in progress
    lastWrapped \* the latest call of a function wrapped by logged(name)

progVars == <<environ, imported, mast_home, loggers, lastCall, frames,
              lastWrapped>>
escVars == <<escPc, escIn, escOut, escTwice>>
fmtVars == <<fmtPc, fmtArgs, fmtKwargs, fmtOut>>
vars == <<progVars, escVars, fmtVars>>

\* The harness of a pure function is switched off while another part runs.
EscIdle == escPc = "off" /\ escIn = <<>> /\ escOut = <<>> /\ escTwice = <<>>
FmtIdle == fmtPc = "off" /\ fmtArgs = <<>> /\ fmtKwargs = <<>> /\ fmtOut = <<>>

(***************************************************************************)
(* Bounds of the model.                                                    *)
(***************************************************************************)
MaxStrLen == 3      \* longest string handed to _escape
MaxArgs == 2        \* most positional arguments of a formatted call
MaxKwargs == 2      \* most keyword arguments of a formatted call
NumThreads == 2     \* threads calling make_logger concurrently

(***************************************************************************)
(* Python str helpers.                                                     *)
(***************************************************************************)
LF == "\n"
CR == "\r"
APOS == "'"
QUOT == "\""

RECURSIVE StrReplace(_, _, _)
\* str.replace(old, new): every non-overlapping occurrence of old, scanned
\* left to right, replaced by new; an empty old matches before every
\* character and at the end.
StrReplace(s, old, new) ==
    IF old = <<>>
    THEN IF s = <<>> THEN new
         ELSE new \o <<Head(s)>> \o StrReplace(Tail(s), old, new)
    ELSE IF Len(s) < Len(old) THEN s
    ELSE IF SubSeq(s, 1, Len(old)) = old
         THEN new \o StrReplace(SubSeq(s, Len(old) + 1, Len(s)), old, new)
         ELSE <<Head(s)>> \o StrReplace(Tail(s), old, new)

RECURSIVE StrJoin(_, _)
\* sep.join(parts)
StrJoin(sep, parts) ==
    IF parts = <<>> THEN <<>>
    ELSE IF Len(parts) = 1 THEN parts[1]
    ELSE parts[1] \o sep \o StrJoin(sep, Tail(parts))

StrOfLen(A, n) == [1..n -> A]
StrUpTo(A, n) == UNION {StrOfLen(A, k) : k \in 0..n}

(***************************************************************************)
(* Python objects, as far as formatting sees them: what str() and repr()   *)
(* return for them.  Raises marks a conversion that raises instead (in     *)
(* Python 2, str() of a unicode object holding a non-ASCII character, or   *)
(* a __repr__ that raises).                                                *)
(***************************************************************************)
Raises == <<"<raises>">>

\* The int 1.
PyInt1 == [str |-> <<"1">>, repr |-> <<"1">>]

\* A str holding no quote, backslash or unprintable character: repr() quotes it.
PyStr(s) == [str |-> s, repr |-> <<APOS>> \o s \o <<APOS>>]

\* An object whose class defines __str__ and __repr__ returning these texts.
PyObj(strText, reprText) == [str |-> strText, repr |-> reprText]

\* dict.__repr__, which is what str(dict) calls: '{' + ', '.join(
\* repr(key) + ': ' + repr(value)) + '}', the items in iteration order.
\* A dict is modelled as the sequence of its <<key, value>> items in that order.
DictStr(kwargs) ==
    <<"{">>
    \o StrJoin(<<",", " ">>,
        [i \in 1..Len(kwargs) |->
            kwargs[i][1].repr \o <<":", " ">> \o kwargs[i][2].repr])
    \o <<"}">>

(***************************************************************************)
(* _format_args, _format_kwargs, _format_arguments                         *)
(***************************************************************************)
_format_args(args) ==
    StrJoin(<<",", " ">>,
        [i \in 1..Len(args) |-> <<APOS>> \o args[i].str \o <<APOS>>])

\* A faulty variant: bare key=value pairs, the quotes of repr() dropped.
FormatKwargsUnquoted(kwargs) ==
    StrJoin(<<",", " ">>,
        [i \in 1..Len(kwargs) |->
            kwargs[i][1].str \o <<"=">> \o kwargs[i][2].str])

_format_kwargs(kwargs) ==
    StrReplace(StrReplace(StrReplace(DictStr(kwargs),
        <<"{">>, <<>>),
        <<"}">>, <<>>),
        <<":", " ">>, <<"=">>)

_format_arguments(args, kwargs) ==
    LET a0 == <<>>
        a1 == IF args # <<>> THEN a0 \o _format_args(args) ELSE a0
        a2 == IF kwargs # <<>>
              THEN (IF args # <<>> THEN a1 \o <<",", " ">> ELSE a1)
                   \o _format_kwargs(kwargs)
              ELSE a1
    IN a2

\* Whether str() of a positional argument or repr() of a keyword item raises.
FormatRaises(args, kwargs) ==
    \/ \E i \in 1..Len(args) : args[i].str = Raises
    \/ \E i \in 1..Len(kwargs) :
        kwargs[i][1].repr = Raises \/ kwargs[i][2].repr = Raises

\* The objects formatted calls are made with.
FmtObjects ==
    { PyInt1, PyStr(<<"x">>), PyStr(<<"v">>),
      PyObj(<<"o">>, <<"<", "o", ":", " ", "{", "}", ">">>) }
FmtKeys == { PyStr(<<"k">>), PyStr(<<"j">>) }

FmtArgTuples == StrUpTo(FmtObjects, MaxArgs)
FmtKwargDicts ==
    { d \in StrUpTo(FmtKeys \X FmtObjects, MaxKwargs) :
        \A i, j \in 1..Len(d) : i # j => d[i][1] # d[j][1] }

(***************************************************************************)
(* _escape                                                                 *)
(***************************************************************************)
\* A faulty variant: escapes the ampersand too, as an XML escaper would.
EscapeAmpersandToo(string) ==
    StrReplace(StrReplace(StrReplace(StrReplace(StrReplace(string,
        <<"&">>, <<"&", "a", "m", "p", ";">>),
        <<LF>>, <<>>),
        <<CR>>, <<>>),
        <<APOS>>, <<"&", "a", "p", "o", "s", ";">>),
        <<QUOT>>, <<"&", "q", "u", "o", "t", ";">>)

_escape(string) ==
    StrReplace(StrReplace(StrReplace(StrReplace(string,
        <<LF>>, <<>>),
        <<CR>>, <<>>),
        <<APOS>>, <<"&", "a", "p", "o", "s", ";">>),
        <<QUOT>>, <<"&", "q", "u", "o", "t", ";">>)

EscAlphabet == {APOS, QUOT, LF, CR, "&", "a"}

(***************************************************************************)
(* os.path                                                                 *)
(***************************************************************************)
RECURSIVE LastSlash(_)
\* p.rfind('/') + 1: the index of the last '/', 0 when there is none.
LastSlash(p) ==
    IF p = <<>> THEN 0
    ELSE IF p[Len(p)] = "/" THEN Len(p)
    ELSE LastSlash(SubSeq(p, 1, Len(p) - 1))

\* os.path.basename(p) (posixpath): what follows the last '/'.
basename(p) == SubSeq(p, LastSlash(p) + 1, Len(p))

\* What precedes the basename, the last '/' included.
dirpart(p) == SubSeq(p, 1, LastSlash(p))

\* posixpath.join(a, b): b alone when it is absolute, else a and b with one
\* '/' put between them unless a is empty or ends with one.
join2(a, b) ==
    IF b # <<>> /\ Head(b) = "/" THEN b
    ELSE IF a = <<>> \/ a[Len(a)] = "/" THEN a \o b
    ELSE a \o <<"/">> \o b

RECURSIVE pathjoin(_, _)
\* os.path.join(a, *parts)
pathjoin(a, parts) ==
    IF parts = <<>> THEN a ELSE pathjoin(join2(a, Head(parts)), Tail(parts))

(***************************************************************************)
(* The module globals (lines 37-57).  The defaults come from the           *)
(* configuration file read by mast.config; these are the values of a       *)
(* typical logging.conf.                                                   *)
(***************************************************************************)
Unset == <<"<unset>">>          \* MAST_HOME is not in os.environ
cwd == <<"/", "w">>             \* os.getcwd()

level == 10
unit == "h"
interval == 1
propagate == TRUE
backup_count == 5

_format == "'level'='%(levelname)s'; 'datetime'='%(asctime)s'; 'process_name'='%(processName)s'; 'pid'='%(process)d'; 'thread'='%(thread)d'; 'module'='%(module)s'; 'line'='%(lineno)d'; 'message'='%(message)s'"

\* make_logger's parameters when only the name is given; filename=None is
\* the empty string here (the code tests `not filename`, true of both).
DefaultParams ==
    [level |-> level, fmt |-> _format, filename |-> <<>>, when |-> unit,
     interval |-> interval, propagate |-> propagate,
     backup_count |-> backup_count]

(***************************************************************************)
(* The logging library, as far as make_logger uses it.                     *)
(***************************************************************************)
\* logging.Logger(name): level NOTSET, propagate on, no handlers.
NewLogger == [level |-> 0, propagate |-> TRUE, handlers |-> <<>>]

\* logging.getLogger(name): the registry with the logger of that name in it,
\* created on first request.
getLogger(L, name) ==
    IF name \in DOMAIN L THEN L
    ELSE [n \in DOMAIN L \cup {name} |-> IF n = name THEN NewLogger ELSE L[n]]

\* TimedRotatingFileHandler(filename, when=when, interval=interval) of lines
\* 143-146 and 160-163: backupCount is not passed and keeps the library's
\* default, 0; a new handler has no formatter and level NOTSET.
TimedRotatingFileHandler(filename, p) ==
    [filename |-> filename, when |-> p.when, interval |-> p.interval,
     backupCount |-> 0, formatter |-> "", level |-> 0]

NoHandler ==
    [filename |-> <<>>, when |-> "", interval |-> 0,
     backupCount |-> 0, formatter |-> "", level |-> 0]

(***************************************************************************)
(* make_logger                                                             *)
(***************************************************************************)
\* Timestamp().timestamp and getpass.getuser(): texts that hold no '/'.
TIMESTAMP == "<timestamp>"
USER == "<user>"

\* Lines 126-141: the file to log to.
TargetFilename(home, env, name, p) ==
    IF p.filename = <<>>
    THEN LET _filename == name \o <<".", "l", "o", "g">>
         IN IF env.mastd
            THEN pathjoin(home, << <<"v", "a", "r">>, <<"l", "o", "g">>,
                                   <<"m", "a", "s", "t", "d">>, _filename >>)
            ELSE pathjoin(home, << <<"v", "a", "r">>, <<"l", "o", "g">>,
                                   _filename >>)
    ELSE p.filename

\* Lines 153-159: filename.replace(fname, "<timestamp>-<user>-<fname>").
FallbackFilename(filename) ==
    LET fname == basename(filename)
    IN StrReplace(filename, fname, <<TIMESTAMP, "-", USER, "-">> \o fname)

\* The frame of a make_logger call: where it is, its arguments and locals.
NewFrame(name, p) ==
    [pc |-> "L118", name |-> name, p |-> p, filename |-> <<>>,
     handler |-> NoHandler, attempts |-> <<>>]

IdleFrame == [NewFrame(<<>>, DefaultParams) EXCEPT !.pc = "idle"]

\* A faulty variant of the cache check: the logger is configured again.
CacheCheckAlwaysConfigures(L, f) ==
    [L |-> getLogger(L, f.name), f |-> [f EXCEPT !.pc = "L123"]]

\* Lines 118-121: fetch the logger; return it as it is when it has a handler.
CacheCheck(L, f) ==
    LET L1 == getLogger(L, f.name)
    IN [L |-> L1,
        f |-> [f EXCEPT !.pc = IF L1[f.name].handlers # <<>>
                                THEN "returned" ELSE "L123"]]

\* Lines 123-141: set the logger's level, work out the filename.
SetLevel(L, f, home, env) ==
    [L |-> [L EXCEPT ![f.name].level = f.p.level],
     f |-> [f EXCEPT !.pc = "L143",
                     !.filename = TargetFilename(home, env, f.name, f.p)]]

\* Lines 143-148: open the handler on the filename (ok, or IOError), and
\* give it the formatter and the level.
OpenPrimary(L, f, ok) ==
    [L |-> L,
     f |-> IF ok
           THEN [f EXCEPT !.pc = "L149",
                          !.attempts = Append(@, f.filename),
                          !.handler =
                              [TimedRotatingFileHandler(f.filename, f.p)
                                  EXCEPT !.formatter = f.p.fmt,
                                         !.level = f.p.level]]
           ELSE [f EXCEPT !.pc = "L152",
                          !.attempts = Append(@, f.filename)]]

\* Lines 149 and 166: _logger.addHandler(_handler).  The handler is an
\* object the call has just made, so it is not among the logger's handlers
\* yet and is appended.
AddHandler(L, f, next) ==
    [L |-> [L EXCEPT ![f.name].handlers = Append(@, f.handler)],
     f |-> [f EXCEPT !.pc = next]]

\* Lines 150 and 167: _logger.propagate = propagate; then line 168.
SetPropagate(L, f) ==
    [L |-> [L EXCEPT ![f.name].propagate = f.p.propagate],
     f |-> [f EXCEPT !.pc = "returned"]]

\* Lines 151-165: on IOError, one more attempt under the fallback name; its
\* IOError is not caught.
OpenFallback(L, f, ok) ==
    LET alt == FallbackFilename(f.filename)
    IN [L |-> L,
        f |-> IF ok
              THEN [f EXCEPT !.pc = "L166",
                             !.filename = alt,
                             !.attempts = Append(@, alt),
                             !.handler =
                                 [TimedRotatingFileHandler(alt, f.p)
                                     EXCEPT !.formatter = f.p.fmt,
                                            !.level = f.p.level]]
              ELSE [f EXCEPT !.pc = "raised",
                             !.filename = alt,
                             !.attempts = Append(@, alt)]]

\* One statement of make_logger; ok is whether the file it opens, if it
\* opens one, can be opened.
Step(L, f, home, env, ok) ==
    CASE f.pc = "L118" -> CacheCheck(L, f)
      [] f.pc = "L123" -> SetLevel(L, f, home, env)
      [] f.pc = "L143" -> OpenPrimary(L, f, ok)
      [] f.pc = "L149" -> AddHandler(L, f, "L150")
      [] f.pc = "L150" -> SetPropagate(L, f)
      [] f.pc = "L152" -> OpenFallback(L, f, ok)
      [] f.pc = "L166" -> AddHandler(L, f, "L167")
      [] f.pc = "L167" -> SetPropagate(L, f)
      [] OTHER -> [L |-> L, f |-> f]

Finished(f) == f.pc \in {"returned", "raised"}

RECURSIVE Run(_, _, _, _, _, _)
\* A call run to its end with no other thread in between; ok1 and ok2 are
\* whether the primary and the fallback file can be opened.
Run(L, f, home, env, ok1, ok2) ==
    IF Finished(f) THEN [L |-> L, f |-> f]
    ELSE LET r == Step(L, f, home, env, IF f.pc = "L152" THEN ok2 ELSE ok1)
         IN Run(r.L, r.f, home, env, ok1, ok2)

\* make_logger(name, **p), run to its end.
make_logger(L, home, env, name, p, ok1, ok2) ==
    Run(L, NewFrame(name, p), home, env, ok1, ok2)

(***************************************************************************)
(* logged                                                                  *)
(***************************************************************************)
\* What a call ends with: a returned value, or a raised exception.
Return(value) == [kind |-> "return", value |-> value, exc |-> ""]
Raise(exc) == [kind |-> "raise", value |-> PyObj(<<>>, <<>>), exc |-> exc]

\* What the wrapper does, in order: the records it hands to the logger
\* (logger.info, logger.exception) and its call of the wrapped function.
Info(msg) == [kind |-> "info", msg |-> msg, args |-> <<>>, kwargs |-> <<>>]
Exception(msg) ==
    [kind |-> "exception", msg |-> msg, args |-> <<>>, kwargs |-> <<>>]
Call(args, kwargs) ==
    [kind |-> "call", msg |-> <<>>, args |-> args, kwargs |-> kwargs]

\* The three messages; func.__name__ and the fixed texts are single elements.
EntryMessage(func, arguments) ==
    <<"Attempting to execute ", func.name, "(">> \o arguments \o <<")">>
ExceptionMessage(func, arguments) ==
    <<"An unhandled exception occurred while attempting to execute ",
      func.name, "(">> \o arguments \o <<")">>
ExitMessage(func, arguments, _result) ==
    <<"Finished execution of ", func.name, "(">> \o arguments
    \o <<")", ". Result: ">> \o _result

\* A faulty variant: the exception is logged and swallowed.
OnExceptionSwallow(trace, func, arguments) ==
    [trace |-> Append(trace, Exception(ExceptionMessage(func, arguments))),
     outcome |-> Return(PyObj(<<"None">>, <<"None">>))]

\* Lines 278-283: the wrapped function raised; log it and raise it again.
OnException(trace, func, arguments) ==
    [trace |-> Append(trace, Exception(ExceptionMessage(func, arguments))),
     outcome |-> Raise(func.exc)]

\* Lines 284-290: the wrapped function returned; repr() of the result may
\* raise, and nothing catches that.
OnReturn(trace, func, arguments) ==
    IF func.result.repr = Raises
    THEN [trace |-> trace, outcome |-> Raise("raised by repr(result)")]
    ELSE [trace |-> Append(trace,
              Info(ExitMessage(func, arguments, _escape(func.result.repr)))),
          outcome |-> Return(func.result)]

\* Lines 270-290: _wrapper(*args, **kwargs) of logged(name)(func).  The
\* result holds the registry the call leaves, what the wrapper did, and what
\* its caller gets.
_wrapper(L, home, env, name, func, args, kwargs, ok1, ok2) ==
    LET r == make_logger(L, home, env, name, DefaultParams, ok1, ok2)
    IN IF r.f.pc = "raised"
       THEN [L |-> r.L, trace |-> <<>>, outcome |-> Raise("IOError")]
       ELSE IF FormatRaises(args, kwargs)
       THEN [L |-> r.L, trace |-> <<>>,
             outcome |-> Raise("raised by str(arg)")]
       ELSE LET arguments == _format_arguments(args, kwargs)
                t1 == <<Info(EntryMessage(func, arguments))>>
                t2 == Append(t1, Call(args, kwargs))
                end == IF func.raises
                       THEN OnException(t2, func, arguments)
                       ELSE OnReturn(t2, func, arguments)
            IN [L |-> r.L, trace |-> end.trace, outcome |-> end.outcome]

\* A wrapped function: what a call of it does.
Returning(result) ==
    [name |-> "f", raises |-> FALSE, result |-> result, exc |-> ""]
Raising(exc) ==
    [name |-> "f", raises |-> TRUE, result |-> PyObj(<<>>, <<>>), exc |-> exc]

\* In Python 2, a unicode object holding a non-ASCII character: str() raises
\* UnicodeEncodeError, repr() is u'\xe9'.
PyUnicodeNonAscii ==
    [str |-> Raises, repr |-> <<"u", APOS, "\\", "x", "e", "9", APOS>>]

\* An object whose __repr__ raises.
PyBrokenRepr == [str |-> Raises, repr |-> Raises]

\* An object whose __repr__ returns a text with quotes and a line break.
PyMultiline ==
    PyObj(<<"r">>, <<"<", APOS, "r", APOS, LF, QUOT, "s", QUOT, CR, ">">>)

WrappedFuncs ==
    { Returning(PyInt1), Returning(PyMultiline), Returning(PyBrokenRepr),
      Returning(PyUnicodeNonAscii), Raising("the exception f raised") }
\* The <<args, kwargs>> the wrapped function is called with.
WrappedArguments ==
    { << <<>>, <<>> >>,
      << <<PyInt1, PyStr(<<"x">>)>>, << <<PyStr(<<"k">>), PyStr(<<"v">>)>> >> >>,
      << <<PyUnicodeNonAscii>>, <<>> >>,
      << <<PyInt1>>, << <<PyStr(<<"k">>), PyBrokenRepr>> >> >> }

NoWrappedCall ==
    [pc |-> "none", name |-> <<>>, func |-> Returning(PyInt1), args |-> <<>>,
     kwargs |-> <<>>, trace |-> <<>>, outcome |-> Return(PyInt1)]

(***************************************************************************)
(* The program: the module body, and calls of make_logger.                 *)
(***************************************************************************)
MAST == <<"m", "a", "s", "t">>
DATAPOWER == <<"D", "a", "t", "a", "P", "o", "w", "e", "r">>
APP == <<"a", "p", "p">>

Names == {MAST, DATAPOWER, APP}

\* The parameter sets the application calls make_logger with.
CallParams ==
    { DefaultParams,
      [level |-> 40, fmt |-> "%(message)s",
       filename |-> <<"l", "o", "g", "/", "l", "o", "g">>, when |-> "d",
       interval |-> 2, propagate |-> FALSE, backup_count |-> 3],
      [level |-> 20, fmt |-> "%(levelname)s %(message)s",
       filename |-> <<"/", "t", "/", "a", ".", "l", "o", "g">>,
       when |-> "midnight", interval |-> 7, propagate |-> TRUE,
       backup_count |-> 0] }

Threads == 1..NumThreads

EmptyRegistry == [n \in {} |-> NewLogger]

ProgIdle ==
    /\ environ = [MAST_HOME |-> Unset, mastd |-> FALSE]
    /\ imported = "off"
    /\ mast_home = <<>>
    /\ loggers = EmptyRegistry
    /\ lastCall = IdleFrame
    /\ frames = [t \in Threads |-> IdleFrame]
    /\ lastWrapped = NoWrappedCall

InitProgram ==
    /\ environ \in [MAST_HOME : {Unset, <<>>, <<"/", "m">>}, mastd : BOOLEAN]
    /\ imported = "no"
    /\ mast_home = <<>>
    /\ loggers = EmptyRegistry
    /\ lastCall = IdleFrame
    /\ frames = [t \in Threads |-> IdleFrame]
    /\ lastWrapped = NoWrappedCall
    /\ EscIdle
    /\ FmtIdle

\* Line 37: mast_home = os.environ["MAST_HOME"] or os.getcwd().
ImportKeyError ==
    /\ imported = "no"
    /\ environ.MAST_HOME = Unset
    /\ imported' = "KeyError"
    /\ UNCHANGED <<environ, mast_home, loggers, lastCall, frames,
                   lastWrapped, escVars, fmtVars>>

\* Lines 37-57 and 294-295: the module body, with its two make_logger calls.
Import ==
    /\ imported = "no"
    /\ environ.MAST_HOME # Unset
    /\ \E a1, a2, b1, b2 \in BOOLEAN :
        LET home == IF environ.MAST_HOME # <<>> THEN environ.MAST_HOME ELSE cwd
            r1 == make_logger(loggers, home, environ, MAST, DefaultParams,
                              a1, a2)
            r2 == make_logger(r1.L, home, environ, DATAPOWER, DefaultParams,
                              b1, b2)
        IN /\ mast_home' = home
           /\ IF r1.f.pc = "raised"
              THEN loggers' = r1.L /\ imported' = "IOError"
              ELSE /\ loggers' = r2.L
                   /\ imported' = IF r2.f.pc = "raised" THEN "IOError" ELSE "ok"
    /\ UNCHANGED <<environ, lastCall, frames, lastWrapped, escVars, fmtVars>>

\* The application calls make_logger(name, **p) and the call runs to its end.
MakeLogger ==
    /\ imported = "ok"
    /\ \E name \in Names, p \in CallParams, ok1, ok2 \in BOOLEAN :
        LET r == make_logger(loggers, mast_home, environ, name, p, ok1, ok2)
        IN /\ loggers' = r.L
           /\ lastCall' = r.f
    /\ UNCHANGED <<environ, imported, mast_home, frames, lastWrapped,
                   escVars, fmtVars>>

Next == ImportKeyError \/ Import \/ MakeLogger

Spec == InitProgram /\ [][Next]_vars

\* The application calls a function wrapped by logged(name).
WrappedCall ==
    /\ imported = "ok"
    /\ \E name \in {MAST, APP}, func \in WrappedFuncs,
          a \in WrappedArguments, ok1, ok2 \in BOOLEAN :
        \E r \in {_wrapper(loggers, mast_home, environ, name, func, a[1],
                          a[2], ok1, ok2)} :
           /\ loggers' = r.L
           /\ lastWrapped' =
                [pc |-> "done", name |-> name, func |-> func, args |-> a[1],
                 kwargs |-> a[2], trace |-> r.trace, outcome |-> r.outcome]
    /\ UNCHANGED <<environ, imported, mast_home, lastCall, frames,
                   escVars, fmtVars>>

NextLogged == ImportKeyError \/ Import \/ WrappedCall

SpecLogged == InitProgram /\ [][NextLogged]_vars

\* A thread calls make_logger(name, **p).
ThreadCall(t) ==
    /\ imported = "ok"
    /\ frames[t].pc = "idle"
    /\ \E name \in {MAST, APP}, p \in CallParams :
        frames' = [frames EXCEPT ![t] = NewFrame(name, p)]
    /\ UNCHANGED <<environ, imported, mast_home, loggers, lastCall,
                   lastWrapped, escVars, fmtVars>>

\* A thread runs the next statement of its call.
ThreadStep(t) ==
    /\ frames[t].pc \notin {"idle", "returned", "raised"}
    /\ \E ok \in BOOLEAN :
        LET r == Step(loggers, frames[t], mast_home, environ, ok)
        IN /\ loggers' = r.L
           /\ frames' = [frames EXCEPT ![t] = r.f]
    /\ UNCHANGED <<environ, imported, mast_home, lastCall, lastWrapped,
                   escVars, fmtVars>>

\* A thread's call has returned or raised; the thread goes on.
ThreadReturn(t) ==
    /\ Finished(frames[t])
    /\ frames' = [frames EXCEPT ![t] = IdleFrame]
    /\ UNCHANGED <<environ, imported, mast_home, loggers, lastCall,
                   lastWrapped, escVars, fmtVars>>

NextThreads ==
    \/ ImportKeyError
    \/ Import
    \/ \E t \in Threads : ThreadCall(t)
    \/ \E t \in Threads : ThreadStep(t)
    \/ \E t \in Threads : ThreadReturn(t)

SpecThreads == InitProgram /\ [][NextThreads]_vars

(***************************************************************************)
(* The harnesses of the pure functions.                                    *)
(***************************************************************************)
InitFormat ==
    /\ fmtArgs \in FmtArgTuples
    /\ fmtKwargs \in FmtKwargDicts
    /\ fmtOut = <<>>
    /\ fmtPc = "start"
    /\ EscIdle
    /\ ProgIdle

FormatArguments ==
    /\ fmtPc = "start"
    /\ fmtOut' = _format_arguments(fmtArgs, fmtKwargs)
    /\ fmtPc' = "done"
    /\ UNCHANGED <<fmtArgs, fmtKwargs, escVars, progVars>>

NextFormat == FormatArguments

SpecFormat == InitFormat /\ [][NextFormat]_vars

InitEscape ==
    /\ escIn \in StrUpTo(EscAlphabet, MaxStrLen)
    /\ escOut = <<>>
    /\ escTwice = <<>>
    /\ escPc = "start"
    /\ FmtIdle
    /\ ProgIdle

Escape ==
    /\ escPc = "start"
    /\ escOut' = _escape(escIn)
    /\ escPc' = "once"
    /\ UNCHANGED <<escIn, escTwice, fmtVars, progVars>>

EscapeAgain ==
    /\ escPc = "once"
    /\ escTwice' = _escape(escOut)
    /\ escPc' = "twice"
    /\ UNCHANGED <<escIn, escOut, fmtVars, progVars>>

NextEscape == Escape \/ EscapeAgain

SpecEscape == InitEscape /\ [][NextEscape]_vars

\* The substitution table, character by character.
EscapeChar(c) ==
    IF c = LF \/ c = CR THEN <<>>
    ELSE IF c = APOS THEN <<"&", "a", "p", "o", "s", ";">>
    ELSE IF c = QUOT THEN <<"&", "q", "u", "o", "t", ";">>
    ELSE <<c>>

RECURSIVE EscapeByTable(_)
EscapeByTable(s) ==
    IF s = <<>> THEN <<>> ELSE EscapeChar(Head(s)) \o EscapeByTable(Tail(s))

\* C9: _escape is total and idempotent: its result holds no line feed,
\* carriage return, single quote or double quote, it is the argument with
\* every character replaced per the substitution table, in order, and
\* escaping the result again changes nothing.
C9_EscapeTotalIdempotent ==
    /\ escPc \in {"once", "twice"} =>
        /\ \A i \in 1..Len(escOut) : escOut[i] \notin {LF, CR, APOS, QUOT}
        /\ escOut = EscapeByTable(escIn)
    /\ escPc = "twice" => escTwice = escOut

\* C9 witness: a string holding a quote and a line break has been escaped twice.
C9_Witness ==
    /\ escPc = "twice"
    /\ \E i \in 1..Len(escIn) : escIn[i] = APOS
    /\ \E i \in 1..Len(escIn) : escIn[i] = LF
    /\ \E i \in 1..Len(escIn) : escIn[i] = QUOT

(***************************************************************************)
(* Claims about make_logger                                                *)
(***************************************************************************)
\* C1: once a logger has a handler, no later make_logger call for its name
\* changes its level, propagate flag or handlers (their filename, rotation
\* unit and interval, format, level), whatever the call passes; the call
\* opens no file and returns the logger.
C1_FirstCallWins ==
    [][\A n \in DOMAIN loggers :
          loggers[n].handlers # <<>> =>
              /\ n \in DOMAIN loggers'
              /\ loggers'[n] = loggers[n]
              /\ (lastCall' # lastCall /\ lastCall'.name = n) =>
                    /\ lastCall'.pc = "returned"
                    /\ lastCall'.attempts = <<>>]_vars

\* C1 witness: a call for a configured logger, with another level, file and
\* format than the logger has, has returned.
C1_Witness ==
    /\ lastCall.pc = "returned"
    /\ lastCall.attempts = <<>>
    /\ lastCall.name = APP
    /\ Len(loggers[APP].handlers) = 1
    /\ loggers[APP].level # lastCall.p.level
    /\ loggers[APP].propagate # lastCall.p.propagate
    /\ loggers[APP].handlers[1].formatter # lastCall.p.fmt
    /\ loggers[APP].handlers[1].when # lastCall.p.when

\* The latest make_logger call opened a file and returned: it was the call
\* that configured its logger.
ConfiguringCall == lastCall.pc = "returned" /\ lastCall.attempts # <<>>

\* C4 as stated: after a failed attempt on the primary filename there is
\* exactly one more, on a path in the primary's directory whose base name is
\* <timestamp>-<user>-<primary base name>; if it succeeds the logger has the
\* one handler, on that path, and if it fails the call raises.
C4_AsStated ==
    /\ Len(lastCall.attempts) <= 2
    /\ lastCall.pc = "raised" => Len(lastCall.attempts) = 2
    /\ Len(lastCall.attempts) = 2 =>
        LET primary == lastCall.attempts[1]
            alt == lastCall.attempts[2]
        IN /\ dirpart(alt) = dirpart(primary)
           /\ basename(alt) = <<TIMESTAMP, "-", USER, "-">> \o basename(primary)
           /\ lastCall.pc = "returned" =>
                /\ Len(loggers[lastCall.name].handlers) = 1
                /\ loggers[lastCall.name].handlers[1].filename = alt

\* C6 as stated: the handler of the logger a call configured keeps
\* backup_count rotated files.
C6_AsStated ==
    ConfiguringCall =>
        loggers[lastCall.name].handlers[1].backupCount
            = lastCall.p.backup_count

\* <home>: MAST_HOME, the working directory when it is unset or empty.
HomeAsStated ==
    IF environ.MAST_HOME = Unset \/ environ.MAST_HOME = <<>>
    THEN cwd ELSE environ.MAST_HOME

\* The default path of logger n under <home>.
DefaultPathAsStated(n) ==
    HomeAsStated
    \o (IF environ.mastd
        THEN <<"/", "v", "a", "r", "/", "l", "o", "g", "/",
               "m", "a", "s", "t", "d", "/">>
        ELSE <<"/", "v", "a", "r", "/", "l", "o", "g", "/">>)
    \o n \o <<".", "l", "o", "g">>

\* The part of C7 about the path: a call without a filename goes for
\* <home>/var/log[/mastd]/<n>.log.
C7_PathAsStated ==
    (lastCall.attempts # <<>> /\ lastCall.p.filename = <<>>) =>
        lastCall.attempts[1] = DefaultPathAsStated(lastCall.name)

\* C7 as stated: a call without a filename goes for
\* <home>/var/log[/mastd]/<n>.log, <home> being MAST_HOME or, when that is
\* unset or empty, the working directory; resolving <home> raises nothing.
C7_AsStated ==
    /\ imported # "KeyError"
    /\ C7_PathAsStated

\* C10 as stated: whatever the interleaving of concurrent make_logger calls
\* for a name, its logger never has two handlers, and once no call for it
\* is in progress its level, propagate flag and handler all come from one
\* of the calls.
C10_AsStated ==
    \A n \in DOMAIN loggers :
        /\ Len(loggers[n].handlers) <= 1
        /\ (/\ loggers[n].handlers # <<>>
            /\ \A t \in Threads : frames[t].name = n => Finished(frames[t]))
           => \E p \in CallParams :
                /\ loggers[n].level = p.level
                /\ loggers[n].propagate = p.propagate
                /\ loggers[n].handlers[1].formatter = p.fmt
                /\ loggers[n].handlers[1].level = p.level
                /\ loggers[n].handlers[1].when = p.when
                /\ loggers[n].handlers[1].interval = p.interval

(***************************************************************************)
(* Claims about logged                                                     *)
(***************************************************************************)
\* The wrapped function was called in the latest wrapped call.
Invoked ==
    /\ lastWrapped.pc = "done"
    /\ \E i \in 1..Len(lastWrapped.trace) : lastWrapped.trace[i].kind = "call"

\* The number of steps of that kind in the latest wrapped call.
CountKind(kind) ==
    Cardinality({i \in 1..Len(lastWrapped.trace) :
                    lastWrapped.trace[i].kind = kind})

\* C2 as stated: when the wrapped function returns normally the wrapper has
\* written the entry record, called the function, written the exit record,
\* written no error record, and returns the function's value itself.
C2_AsStated ==
    (Invoked /\ ~lastWrapped.func.raises) =>
        /\ Len(lastWrapped.trace) = 3
        /\ lastWrapped.trace[1].kind = "info"
        /\ lastWrapped.trace[1].msg[1] = "Attempting to execute "
        /\ lastWrapped.trace[2].kind = "call"
        /\ lastWrapped.trace[3].kind = "info"
        /\ lastWrapped.trace[3].msg[1] = "Finished execution of "
        /\ lastWrapped.outcome = Return(lastWrapped.func.result)

\* C3: when the wrapped function raises, the wrapper has written one entry
\* record, called the function, written one error record and no exit
\* record, and raises the exception the function raised.
C3_ExceptionLoggedAndRaisedAgain ==
    (Invoked /\ lastWrapped.func.raises) =>
        /\ Len(lastWrapped.trace) = 3
        /\ lastWrapped.trace[1].kind = "info"
        /\ lastWrapped.trace[1].msg[1] = "Attempting to execute "
        /\ lastWrapped.trace[2].kind = "call"
        /\ lastWrapped.trace[3].kind = "exception"
        /\ lastWrapped.trace[3].msg[1] =
            "An unhandled exception occurred while attempting to execute "
        /\ CountKind("info") = 1
        /\ lastWrapped.outcome.kind = "raise"
        /\ lastWrapped.outcome.exc = lastWrapped.func.exc

\* C3 witness: a wrapped function called with arguments has raised, its
\* logger made by the call.
C3_Witness ==
    /\ Invoked
    /\ lastWrapped.func.raises
    /\ lastWrapped.name = APP
    /\ lastWrapped.args # <<>>

\* What calling the function unwrapped ends with.
Unwrapped(func) ==
    IF func.raises THEN Raise(func.exc) ELSE Return(func.result)

\* C5 as stated: a wrapped call ends as the unwrapped call would, the
\* function called exactly once, with the arguments of the call.
C5_AsStated ==
    lastWrapped.pc = "done" =>
        /\ lastWrapped.outcome = Unwrapped(lastWrapped.func)
        /\ CountKind("call") = 1
        /\ \A i \in 1..Len(lastWrapped.trace) :
            lastWrapped.trace[i].kind = "call" =>
                /\ lastWrapped.trace[i].args = lastWrapped.args
                /\ lastWrapped.trace[i].kwargs = lastWrapped.kwargs

(***************************************************************************)
(* Claims about _format_arguments                                          *)
(***************************************************************************)
\* The example call of the documentation: _format_arguments((1, "x"), {"k": "v"}).
ExampleArgs == <<PyInt1, PyStr(<<"x">>)>>
ExampleKwargs == << <<PyStr(<<"k">>), PyStr(<<"v">>)>> >>

\* The positional segment: each str() form in single quotes, joined by ', '.
PositionalSegment(args) ==
    StrJoin(<<",", " ">>,
        [i \in 1..Len(args) |-> <<APOS>> \o args[i].str \o <<APOS>>])

\* ', ' exactly when both args and kwargs are non-empty.
SegmentSeparator(args, kwargs) ==
    IF args # <<>> /\ kwargs # <<>> THEN <<",", " ">> ELSE <<>>

\* key=value pairs, the key and the value as they print.
BareKeywordSegment(kwargs) ==
    StrJoin(<<",", " ">>,
        [i \in 1..Len(kwargs) |->
            kwargs[i][1].str \o <<"=">> \o kwargs[i][2].str])

\* repr(key)=repr(value) pairs.
ReprKeywordSegment(kwargs) ==
    StrJoin(<<",", " ">>,
        [i \in 1..Len(kwargs) |->
            kwargs[i][1].repr \o <<"=">> \o kwargs[i][2].repr])

\* No brace and no colon in the repr() of any key or value.
PlainReprs(kwargs) ==
    \A i \in 1..Len(kwargs) : \A j \in 1..2 :
        \A n \in 1..Len(kwargs[i][j].repr) :
            kwargs[i][j].repr[n] \notin {"{", "}", ":"}

\* C8 as stated: the result is the positional segment, ', ' when both are
\* non-empty, and key=value pairs; the example gives  '1', 'x', k=v
C8_AsStated ==
    fmtPc = "done" =>
        /\ fmtOut = PositionalSegment(fmtArgs)
                    \o SegmentSeparator(fmtArgs, fmtKwargs)
                    \o BareKeywordSegment(fmtKwargs)
        /\ (fmtArgs = ExampleArgs /\ fmtKwargs = ExampleKwargs) =>
            fmtOut = <<APOS, "1", APOS, ",", " ", APOS, "x", APOS, ",", " ",
                       "k", "=", "v">>

\* C8 amended: the result is the positional segment, ', ' exactly when both
\* are non-empty, and a keyword segment that holds no brace and, for keys
\* and values whose repr() holds no brace and no colon, is the pairs
\* repr(key)=repr(value) joined by ', ' (string keys and values keep their
\* quotes); both empty gives the empty string; the example gives
\* '1', 'x', 'k'='v'
C8_FormatArguments ==
    fmtPc = "done" =>
        /\ LET pre == PositionalSegment(fmtArgs)
                      \o SegmentSeparator(fmtArgs, fmtKwargs)
               kw == SubSeq(fmtOut, Len(pre) + 1, Len(fmtOut))
           IN /\ Len(fmtOut) >= Len(pre)
              /\ SubSeq(fmtOut, 1, Len(pre)) = pre
              /\ fmtKwargs = <<>> <=> kw = <<>>
              /\ \A n \in 1..Len(kw) : kw[n] \notin {"{", "}"}
              /\ PlainReprs(fmtKwargs) => kw = ReprKeywordSegment(fmtKwargs)
        /\ (fmtArgs = <<>> /\ fmtKwargs = <<>>) => fmtOut = <<>>
        /\ (fmtArgs = ExampleArgs /\ fmtKwargs = ExampleKwargs) =>
            fmtOut = <<APOS, "1", APOS, ",", " ", APOS, "x", APOS, ",", " ",
                       APOS, "k", APOS, "=", APOS, "v", APOS>>

\* C8 witness: the example call has been formatted.
C8_Witness ==
    /\ fmtPc = "done"
    /\ fmtArgs = ExampleArgs
    /\ fmtKwargs = ExampleKwargs

====
